---- MODULE Spec2Model ----
(***************************************************************************)
(* Model of code_pin (src/src/main.rs): the count of the swipe patterns of *)
(* a 3x3 keypad, by a sweep over a table indexed by (swiped points, last   *)
(* swiped point).                                                          *)
(*                                                                         *)
(* Five specifications share the variables:                                *)
(*   Spec       the run of main (lines 170-203), one step per statement of *)
(*              main and, in the loop of next_step, one step per visited   *)
(*              mask that has a populated entry;                           *)
(*   FairSpec   Spec, the process taking its next step as long as it has   *)
(*              one;                                                       *)
(*   SwipeSpec  Position::from followed by Position::swipe_to, on every    *)
(*              index and every candidate point;                           *)
(*   PointSpec  Position::from_point followed by Position::swipe_to, on    *)
(*              every point and every candidate point;                     *)
(*   DriveSpec  Step::init() followed by next_step again and again, past   *)
(*              length 9, and validate called with any expected length.    *)
(***************************************************************************)
EXTENDS Integers, Sequences, FiniteSets

VARIABLES
    pc,                 \* position in main, or in the calls of the other specifications
    step,               \* the loop variable `step` of main; DriveSpec: the number of the distribution
    current,            \* current.possibilities, an array (<<>> before Step::init)
    next,               \* next.possibilities while next_step runs (<<>> otherwise)
    index,              \* the index of the loop of next_step; the usize given to Position::from or from_point
    sum_step_5_to_9,    \* the accumulator of main
    output,             \* the lines printed so far
    panic,              \* "" or the assertion that aborted the process
    position,           \* SwipeSpec: the Position built by Position::from (an Option)
    next_swiped_point,  \* SwipeSpec: the candidate point
    swiped,             \* SwipeSpec: the Option returned by swipe_to
    expected            \* DriveSpec: the argument `step` of the call of validate

vars == <<pc, step, current, next, index, sum_step_5_to_9, output, panic,
          position, next_swiped_point, swiped, expected>>

mainVars == <<step, current, next, sum_step_5_to_9, output, expected>>

-----------------------------------------------------------------------------
(* Option<T> *)
None == <<>>
Some(x) == <<x>>

(* the points of the keypad, `0..9` in the source *)
PointCount == 9
Points == 0 .. (PointCount - 1)

(* + of u32.  TLC's integers end at 2^31 - 1 and TLC stops with an error   *)
(* on a sum past them, so every u32 of the model is below 2^31, the sum of *)
(* two of them is below 2^32, and + never wraps here.                      *)
U32Add(a, b) == a + b

(* how far past the end of the array SwipeSpec probes Position::from *)
ProbeMargin == 12

(* DriveSpec: the largest expected length passed to validate, and how many  *)
(* distributions the drive makes (the first is Step::init())                *)
MaxExpected == 10
MaxDrive == 11

-----------------------------------------------------------------------------
(* Position *)

(* fn all_positions_count, lines 11-22 *)
all_positions_count_without_empty_board == 9 * (2 ^ 9)
all_positions_count == 9 * (1 + (2 ^ 9))

(* impl From<usize> for Position, lines 3-8: Some(Position) when the        *)
(* assertion of line 5 holds, None when it aborts the process.  A Position  *)
(* is modelled by the usize it wraps.                                       *)
from(i) == IF i < all_positions_count THEN Some(i) ELSE None

(* the operator & of usize *)
RECURSIVE BitAnd(_, _)
BitAnd(a, b) ==
    IF a = 0 \/ b = 0 THEN 0
    ELSE (a % 2) * (b % 2) + 2 * BitAnd(a \div 2, b \div 2)

(* usize::count_ones *)
RECURSIVE count_ones(_)
count_ones(n) == IF n = 0 THEN 0 ELSE (n % 2) + count_ones(n \div 2)

(* fn base, lines 24-26 *)
base_by_eight(self) == self \div 8
base(self) == self \div 9

(* fn last_swiped, lines 28-30 *)
last_swiped(self) == self % 9

(* fn index_of_point, lines 32-34 *)
index_of_point_linear(point) == 9 * point
index_of_point(point) == 9 * (2 ^ point)

(* fn from_point, lines 36-40 (its assertion point < 9 holds of every call) *)
from_point_without_last(point) == index_of_point(point)
from_point_of_next_point(point) == index_of_point(point + 1) + point
from_point(point) == index_of_point(point) + point

(* fn is_swiped, lines 42-47 *)
is_swiped_of_index(self, point) == BitAnd(self, 2 ^ point) # 0
is_swiped(self, point) == BitAnd(base(self), 2 ^ point) # 0

(* the guarded arms of the match of swipe_to, lines 65-87, in source order: *)
(* <<last_swiped, next_swiped_point, the point the guard tests>>            *)
SkipArms_asymmetric ==
    << <<0, 2, 1>>, <<0, 8, 4>>, <<0, 6, 3>>,
       <<2, 0, 1>>, <<2, 6, 4>>, <<2, 8, 5>>,
       <<6, 0, 3>>, <<6, 2, 4>>, <<6, 8, 7>>,
       <<8, 6, 4>>, <<8, 0, 4>>, <<8, 2, 5>>,
       <<1, 7, 4>>, <<7, 1, 4>>, <<3, 5, 4>>, <<5, 3, 4>> >>
SkipArms_without_border ==
    << <<0, 2, 1>>, <<0, 8, 4>>, <<0, 6, 3>>,
       <<2, 0, 1>>, <<2, 6, 4>>, <<2, 8, 5>>,
       <<6, 0, 3>>, <<6, 2, 4>>, <<6, 8, 7>>,
       <<8, 6, 7>>, <<8, 0, 4>>, <<8, 2, 5>>,
       <<1, 7, 4>>, <<7, 1, 4>> >>
SkipArms_with_centre ==
    << <<0, 2, 1>>, <<0, 8, 4>>, <<0, 6, 3>>,
       <<2, 0, 1>>, <<2, 6, 4>>, <<2, 8, 5>>,
       <<6, 0, 3>>, <<6, 2, 4>>, <<6, 8, 7>>,
       <<8, 6, 7>>, <<8, 0, 4>>, <<8, 2, 5>>,
       <<1, 7, 4>>, <<7, 1, 4>>, <<3, 5, 4>>, <<5, 3, 4>>,
       <<4, 0, 1>> >>
SkipArms ==
    << <<0, 2, 1>>, <<0, 8, 4>>, <<0, 6, 3>>,
       <<2, 0, 1>>, <<2, 6, 4>>, <<2, 8, 5>>,
       <<6, 0, 3>>, <<6, 2, 4>>, <<6, 8, 7>>,
       <<8, 6, 7>>, <<8, 0, 4>>, <<8, 2, 5>>,
       <<1, 7, 4>>, <<7, 1, 4>>, <<3, 5, 4>>, <<5, 3, 4>> >>

(* the match of lines 65-87: TRUE when an arm returns None *)
goes_through_swiped(self, next_swiped_point_) ==
    \E i \in DOMAIN SkipArms :
        /\ SkipArms[i][1] = last_swiped(self)
        /\ SkipArms[i][2] = next_swiped_point_
        /\ is_swiped(self, SkipArms[i][3])
goes_through_unswiped(self, next_swiped_point_) ==
    \E i \in DOMAIN SkipArms :
        /\ SkipArms[i][1] = last_swiped(self)
        /\ SkipArms[i][2] = next_swiped_point_
        /\ ~is_swiped(self, SkipArms[i][3])

(* fn swipe_to, lines 49-90 *)
swipe_to_keeping_base(self, next_swiped_point_) ==
    IF is_swiped(self, next_swiped_point_) THEN None
    ELSE IF goes_through_unswiped(self, next_swiped_point_) THEN None
    ELSE Some((base(self) * 9) + next_swiped_point_)
swipe_to_without_last(self, next_swiped_point_) ==
    IF is_swiped(self, next_swiped_point_) THEN None
    ELSE IF goes_through_unswiped(self, next_swiped_point_) THEN None
    ELSE Some((base(self) * 9) + index_of_point(next_swiped_point_))
swipe_to_again(self, next_swiped_point_) ==
    IF goes_through_unswiped(self, next_swiped_point_) THEN None
    ELSE Some((base(self) * 9) + index_of_point(next_swiped_point_) + next_swiped_point_)
swipe_to(self, next_swiped_point_) ==
    IF is_swiped(self, next_swiped_point_) THEN None
    ELSE IF goes_through_unswiped(self, next_swiped_point_) THEN None
    ELSE Some((base(self) * 9) + index_of_point(next_swiped_point_) + next_swiped_point_)

(* fn swiped_points, lines 92-94 *)
swiped_points(self) == count_ones(base(self))

-----------------------------------------------------------------------------
(* States and Step *)

(* struct States, line 97: the array [u32; all_positions_count()] is the    *)
(* sequence of its entries, entry i of the array being element i + 1        *)

(* impl Default for States, lines 112-118 *)
States_default == [i \in 1 .. all_positions_count |-> 0]

(* Index / IndexMut of States, lines 99-110: an index past the end aborts *)
in_bounds(possibilities, position_) == position_ >= 0 /\ position_ < Len(possibilities)

(* impl Index<Position> for States, lines 99-104 *)
at(possibilities, position_) == possibilities[position_ + 1]

(* fn init, lines 132-140: the loop of lines 135-137 from point i on *)
RECURSIVE init_from(_, _)
init_from(possibilities, i) ==
    IF i = PointCount THEN possibilities
    ELSE init_from([possibilities EXCEPT ![from_point(i) + 1] = 1], i + 1)

init == init_from(States_default, 0)

(* iter().sum() over the entries lo .. hi-1 (+ is associative, so the sum   *)
(* of the two halves is the sum in order)                                   *)
RECURSIVE sum_range(_, _, _)
sum_range(possibilities, lo, hi) ==
    IF hi <= lo THEN 0
    ELSE IF hi = lo + 1 THEN at(possibilities, lo)
    ELSE LET mid == (lo + hi) \div 2
         IN  U32Add(sum_range(possibilities, lo, mid), sum_range(possibilities, mid, hi))

(* fn current_possibilities, lines 142-144 *)
current_possibilities(possibilities) ==
    sum_range(possibilities, 0, Len(possibilities))

(* fn validate, lines 146-151: TRUE when no assertion fails *)
validate_at_most(possibilities, step_) ==
    \A i \in 0 .. (Len(possibilities) - 1) :
        /\ from(i) # None
        /\ (at(possibilities, i) = 0 \/ swiped_points(i) <= step_)
validate(possibilities, step_) ==
    \A i \in 0 .. (Len(possibilities) - 1) :
        /\ from(i) # None
        /\ (at(possibilities, i) = 0 \/ swiped_points(i) = step_)

(* line 162, next.possibilities[next_position] += count *)
add_count_overwriting(old, count) == count
add_count_twice(old, count) == U32Add(U32Add(old, count), count)
add_count(old, count) == U32Add(old, count)

(* the loop of lines 160-164 of next_step, from candidate point p on, for   *)
(* one populated index                                                      *)
RECURSIVE swipe_all_from(_, _, _, _)
swipe_all_from(next_, current_position, count, p) ==
    IF p = PointCount THEN next_
    ELSE LET next_position == swipe_to(current_position, p)
         IN  IF next_position = None \/ ~in_bounds(next_, next_position[1])
             THEN swipe_all_from(next_, current_position, count, p + 1)
             ELSE swipe_all_from(
                      [next_ EXCEPT ![next_position[1] + 1] = add_count(@, count)],
                      current_position, count, p + 1)

(* lines 155-159: where the loop of next_step, being at entry `i`, next     *)
(* gets past the `continue` of line 158: the first populated entry from i   *)
(* on, or the length of the array when the entries left are all zero        *)
next_populated(possibilities, i) ==
    CHOOSE j \in i .. Len(possibilities) :
        /\ j = Len(possibilities) \/ at(possibilities, j) # 0
        /\ \A k \in i .. (j - 1) : at(possibilities, k) = 0

(* the abort of one iteration of the loop of next_step: an index past the   *)
(* end of the array at line 162, through index_mut                          *)
index_panics(next_, current_position) ==
    \E p \in Points :
        LET next_position == swipe_to(current_position, p)
        IN  next_position # None /\ ~in_bounds(next_, next_position[1])

(* the entries 9 * b .. 9 * b + 8 are the states of the visited mask b: the *)
(* end of the block of entry i, inside the array                            *)
block_end(possibilities, i) ==
    IF 9 * (base(i) + 1) < Len(possibilities)
    THEN 9 * (base(i) + 1)
    ELSE Len(possibilities)

(* lines 155-165: the iterations of the loop of next_step over the entries  *)
(* i .. end - 1                                                             *)
RECURSIVE swipe_entries(_, _, _, _)
swipe_entries(next_, possibilities, i, end) ==
    IF i >= end THEN next_
    ELSE IF at(possibilities, i) = 0
    THEN swipe_entries(next_, possibilities, i + 1, end)
    ELSE swipe_entries(swipe_all_from(next_, i, at(possibilities, i), 0),
                       possibilities, i + 1, end)

-----------------------------------------------------------------------------
(* the process aborts on the failed assertion `reason` *)
Abort(reason) ==
    /\ pc' = "aborted"
    /\ panic' = reason

-----------------------------------------------------------------------------
(* fn main, lines 170-203 *)

Init ==
    /\ pc = "init"
    /\ step = 0
    /\ current = <<>>
    /\ next = <<>>
    /\ index = 0
    /\ sum_step_5_to_9 = 0
    /\ output = <<>>
    /\ panic = ""
    /\ position = None
    /\ next_swiped_point = 0
    /\ swiped = None
    /\ expected = 0

(* line 175: let mut current = Step::init(); the first validate is for 1 *)
MainInit ==
    /\ pc = "init"
    /\ current' = init
    /\ step' = 1
    /\ pc' = "validate"
    /\ UNCHANGED <<next, index, sum_step_5_to_9, output, panic,
                   position, next_swiped_point, swiped, expected>>

(* lines 177, 183, 196: current.validate(step) *)
Validate ==
    /\ pc = "validate"
    /\ IF validate(current, step)
       THEN pc' = "display" /\ UNCHANGED panic
       ELSE Abort("validate")
    /\ UNCHANGED <<step, current, next, index, sum_step_5_to_9, output,
                   position, next_swiped_point, swiped, expected>>

(* lines 178, 184, 197: display(step, current.current_possibilities());     *)
(* after line 178 the loop of line 180 starts with step = 2                 *)
Display_repeating_length_one ==
    /\ pc = "display"
    /\ output' = Append(output, <<step, current_possibilities(current)>>)
    /\ IF step = 1
       THEN step' = 1 /\ pc' = "next_step"
       ELSE /\ UNCHANGED step
            /\ pc' = IF step < 5 THEN "assert56" ELSE "accumulate"
    /\ UNCHANGED panic
    /\ UNCHANGED <<current, next, index, sum_step_5_to_9,
                   position, next_swiped_point, swiped, expected>>

Display_accumulating_from_four ==
    /\ pc = "display"
    /\ output' = Append(output, <<step, current_possibilities(current)>>)
    /\ IF step = 1
       THEN step' = 2 /\ pc' = "next_step"
       ELSE /\ UNCHANGED step
            /\ pc' = IF step < 4 THEN "assert56" ELSE "accumulate"
    /\ UNCHANGED panic
    /\ UNCHANGED <<current, next, index, sum_step_5_to_9,
                   position, next_swiped_point, swiped, expected>>
Display ==
    /\ pc = "display"
    /\ output' = Append(output, <<step, current_possibilities(current)>>)
    /\ IF step = 1
       THEN step' = 2 /\ pc' = "next_step"
       ELSE /\ UNCHANGED step
            /\ pc' = IF step < 5 THEN "assert56" ELSE "accumulate"
    /\ UNCHANGED panic
    /\ UNCHANGED <<current, next, index, sum_step_5_to_9,
                   position, next_swiped_point, swiped, expected>>

(* lines 186-190: the assertion of step 2 and the end of the body of the    *)
(* loop `for step in 2..5`; leaving it runs line 192 and enters the loop    *)
(* `for step in 5..=9` of line 193                                          *)
Assert56 ==
    /\ pc = "assert56"
    /\ IF step = 2 /\ current_possibilities(current) # 56
       THEN Abort("assert56") /\ UNCHANGED <<step, sum_step_5_to_9>>
       ELSE /\ pc' = "next_step"
            /\ step' = step + 1
            /\ sum_step_5_to_9' = IF step + 1 < 5 THEN sum_step_5_to_9 ELSE 0
            /\ UNCHANGED panic
    /\ UNCHANGED <<current, next, index, output,
                   position, next_swiped_point, swiped, expected>>

(* lines 199-200: sum_step_5_to_9 += current.current_possibilities(), and   *)
(* the end of the body of the loop `for step in 5..=9`                      *)
Accumulate ==
    /\ pc = "accumulate"
    /\ sum_step_5_to_9' = U32Add(sum_step_5_to_9, current_possibilities(current))
    /\ IF step < 9
       THEN step' = step + 1 /\ pc' = "next_step"
       ELSE UNCHANGED step /\ pc' = "total"
    /\ UNCHANGED panic
    /\ UNCHANGED <<current, next, index, output,
                   position, next_swiped_point, swiped, expected>>

(* line 202 *)
PrintTotal ==
    /\ pc = "total"
    /\ output' = Append(output, <<sum_step_5_to_9>>)
    /\ pc' = "done"
    /\ UNCHANGED <<step, current, next, index, sum_step_5_to_9, panic,
                   position, next_swiped_point, swiped, expected>>

(* lines 181, 194: current = current.next_step(); line 154 *)
NextStepBegin ==
    /\ pc = "next_step"
    /\ next' = States_default
    /\ index' = 0
    /\ pc' = "next_step_loop"
    /\ UNCHANGED <<step, current, sum_step_5_to_9, output, panic,
                   position, next_swiped_point, swiped, expected>>

(* lines 155-165: the iterations of the loop over the entries of self from *)
(* `index` up to the end of the block of the next populated entry: those    *)
(* before it `continue` at line 158, and the populated entries of the block *)
(* run the loop of lines 160-164                                            *)
NextStepIterate ==
    /\ pc = "next_step_loop"
    /\ next_populated(current, index) < Len(current)
    /\ LET populated == next_populated(current, index)
           end == block_end(current, populated)
       IN  IF \E i \in index .. (end - 1) : from(i) = None
           THEN Abort("from") /\ UNCHANGED <<next, index>>
           ELSE IF \E i \in populated .. (end - 1) :
                      at(current, i) # 0 /\ index_panics(next, i)
           THEN Abort("index") /\ UNCHANGED <<next, index>>
           ELSE /\ next' = swipe_entries(next, current, populated, end)
                /\ index' = end
                /\ UNCHANGED <<pc, panic>>
    /\ UNCHANGED <<step, current, sum_step_5_to_9, output,
                   position, next_swiped_point, swiped, expected>>

(* lines 155-159, then 166 and 181, 194: the entries left are all zero, the *)
(* loop runs out, next is returned and assigned to current                  *)
NextStepReturn_before_the_end ==
    /\ pc = "next_step_loop"
    /\ IF \E i \in index .. (Len(current) - 1) : from(i) = None
       THEN Abort("from") /\ UNCHANGED <<current, next, index>>
       ELSE /\ current' = next
            /\ next' = <<>>
            /\ index' = Len(current)
            /\ pc' = "validate"
            /\ UNCHANGED panic
    /\ UNCHANGED <<step, sum_step_5_to_9, output,
                   position, next_swiped_point, swiped, expected>>
NextStepReturn ==
    /\ pc = "next_step_loop"
    /\ next_populated(current, index) = Len(current)
    /\ IF \E i \in index .. (Len(current) - 1) : from(i) = None
       THEN Abort("from") /\ UNCHANGED <<current, next, index>>
       ELSE /\ current' = next
            /\ next' = <<>>
            /\ index' = Len(current)
            /\ pc' = "validate"
            /\ UNCHANGED panic
    /\ UNCHANGED <<step, sum_step_5_to_9, output,
                   position, next_swiped_point, swiped, expected>>

Next ==
    \/ MainInit
    \/ Validate
    \/ Display
    \/ Assert56
    \/ Accumulate
    \/ PrintTotal
    \/ NextStepBegin
    \/ NextStepIterate
    \/ NextStepReturn

Spec == Init /\ [][Next]_vars

(* main is one thread that nothing suspends: a step that can be taken is    *)
(* taken                                                                    *)
FairSpec == Spec /\ WF_vars(Next)

-----------------------------------------------------------------------------
(* Position::from and Position::swipe_to on every index and every point *)

SwipeInit ==
    /\ pc = "from"
    /\ index \in 0 .. (all_positions_count + ProbeMargin - 1)
    /\ next_swiped_point \in Points
    /\ position = None
    /\ swiped = None
    /\ panic = ""
    /\ step = 0
    /\ current = <<>>
    /\ next = <<>>
    /\ sum_step_5_to_9 = 0
    /\ output = <<>>
    /\ expected = 0

(* let position: Position = index.into(), lines 3-8 *)
From ==
    /\ pc = "from"
    /\ position' = from(index)
    /\ IF from(index) = None
       THEN Abort("from")
       ELSE pc' = "swipe_to" /\ UNCHANGED panic
    /\ UNCHANGED <<index, next_swiped_point, swiped>>
    /\ UNCHANGED mainVars

(* position.swipe_to(next_swiped_point), lines 49-90 *)
SwipeTo ==
    /\ pc = "swipe_to"
    /\ swiped' = swipe_to(position[1], next_swiped_point)
    /\ pc' = "returned"
    /\ UNCHANGED <<index, next_swiped_point, position, panic>>
    /\ UNCHANGED mainVars

SwipeNext ==
    \/ From
    \/ SwipeTo

SwipeSpec == SwipeInit /\ [][SwipeNext]_vars

(* PointSpec: one call of Position::from_point, as in the loop of line 134, *)
(* with `index` the i of that loop, followed by one call of swipe_to on the *)
(* state it made                                                            *)
PointInit ==
    /\ pc = "from_point"
    /\ index \in Points
    /\ next_swiped_point \in Points
    /\ position = None
    /\ swiped = None
    /\ panic = ""
    /\ step = 0
    /\ current = <<>>
    /\ next = <<>>
    /\ sum_step_5_to_9 = 0
    /\ output = <<>>
    /\ expected = 0

(* Position::from_point(i), lines 36-40 *)
FromPoint ==
    /\ pc = "from_point"
    /\ position' = Some(from_point(index))
    /\ pc' = "swipe_to"
    /\ UNCHANGED <<index, next_swiped_point, swiped, panic>>
    /\ UNCHANGED mainVars

PointNext ==
    \/ FromPoint
    \/ SwipeTo

PointSpec == PointInit /\ [][PointNext]_vars

------------------------------------------------------------------------------
(* DriveSpec: Step::init() and then next_step applied again and again, past *)
(* the length 9 at which main stops; on each distribution validate may be   *)
(* called with any expected length.  A call of next_step is one step.       *)

(* lines 155-165: the loop of next_step from entry i on, block by block     *)
(* (the array keeps its length: comparing the lengths has the block         *)
(* evaluated before the loop goes on)                                       *)
RECURSIVE sweep_from(_, _, _)
sweep_from(next_, possibilities, i) ==
    LET populated == next_populated(possibilities, i)
        end == block_end(possibilities, populated)
        swiped_ == swipe_entries(next_, possibilities, populated, end)
    IN  IF populated = Len(possibilities) \/ Len(swiped_) # Len(next_) THEN next_
        ELSE sweep_from(swiped_, possibilities, end)

(* fn next_step, lines 153-167 *)
next_step_onto_self(possibilities) == sweep_from(possibilities, possibilities, 0)
next_step(possibilities) == sweep_from(States_default, possibilities, 0)

(* Step::init(), lines 132-140 *)
DriveInit ==
    /\ pc = "init"
    /\ current' = init
    /\ step' = 1
    /\ pc' = "drive"
    /\ UNCHANGED <<next, index, sum_step_5_to_9, output, panic,
                   position, next_swiped_point, swiped, expected>>

(* current = current.next_step(), lines 153-167, with its aborts: the       *)
(* assertion of Position::from at line 156, the index of line 162           *)
DriveNextStep ==
    /\ pc = "drive"
    /\ step < MaxDrive
    /\ IF \E i \in 0 .. (Len(current) - 1) : from(i) = None
       THEN Abort("from") /\ UNCHANGED <<step, current>>
       ELSE IF \E i \in 0 .. (Len(current) - 1) :
                  at(current, i) # 0 /\ index_panics(States_default, i)
       THEN Abort("index") /\ UNCHANGED <<step, current>>
       ELSE /\ current' = next_step(current)
            /\ step' = step + 1
            /\ UNCHANGED <<pc, panic>>
    /\ UNCHANGED <<next, index, sum_step_5_to_9, output,
                   position, next_swiped_point, swiped, expected>>

(* current.validate(expected), lines 146-151, for any expected length *)
DriveValidate ==
    /\ pc = "drive"
    /\ \E e \in 0 .. MaxExpected :
          /\ expected' = e
          /\ IF validate(current, e)
             THEN pc' = "validated" /\ UNCHANGED panic
             ELSE Abort("validate")
    /\ UNCHANGED <<step, current, next, index, sum_step_5_to_9, output,
                   position, next_swiped_point, swiped>>

DriveNext ==
    \/ DriveInit
    \/ DriveNextStep
    \/ DriveValidate

DriveSpec == Init /\ [][DriveNext]_vars

-----------------------------------------------------------------------------
(* The vocabulary of the properties, defined apart from the operators that *)
(* model the code: the points an index encodes as visited, and the patterns *)
(* of the keypad                                                            *)
(*     0 1 2                                                                *)
(*     3 4 5                                                                *)
(*     6 7 8                                                                *)

(* the index one past the last state index, 9 * 2^9 *)
StateIndexEnd == 9 * (2 ^ 9)

(* the visited set of index s: point p is in it when bit p of s div 9 is set *)
Visited(s) == {p \in Points : (s \div (9 * (2 ^ p))) % 2 = 1}

(* the last point of index s *)
Last(s) == s % 9

(* the index of the state with visited set V and last point l *)
RECURSIVE MaskOf(_)
MaskOf(V) ==
    IF V = {} THEN 0
    ELSE LET p == CHOOSE q \in V : TRUE IN (2 ^ p) + MaskOf(V \ {p})

Encode(V, l) == l + 9 * MaskOf(V)

(* the point half way between a and b on the grid, if there is one *)
Between(a, b) ==
    {m \in Points \ {a, b} :
        /\ 2 * (m \div 3) = (a \div 3) + (b \div 3)
        /\ 2 * (m % 3) = (a % 3) + (b % 3)}

BetweenTable == [a \in Points |-> [b \in Points |-> Between(a, b)]]

(* the skip rule: the move from a to b, V being the points visited before b *)
MoveAllowed(a, b, V) == b \notin V /\ BetweenTable[a][b] \subseteq V

(* the number of patterns that visit exactly the points of V and end in l:  *)
(* each is a pattern over V \ {l}, ending in some point l may follow        *)
RECURSIVE PatternsEnding(_, _)
RECURSIVE PatternsThrough(_, _, _)
PatternsThrough(V, l, Prev) ==
    IF Prev = {} THEN 0
    ELSE LET a == CHOOSE q \in Prev : TRUE
         IN  (IF MoveAllowed(a, l, V \ {l}) THEN PatternsEnding(V \ {l}, a) ELSE 0)
             + PatternsThrough(V, l, Prev \ {a})

PatternsEnding(V, l) ==
    IF l \notin V THEN 0
    ELSE IF V = {l} THEN 1
    ELSE PatternsThrough(V, l, V \ {l})

(* the number of patterns of length k that index s encodes *)
PatternsOfIndex(s, k) ==
    IF s < StateIndexEnd /\ Cardinality(Visited(s)) = k
    THEN PatternsEnding(Visited(s), Last(s))
    ELSE 0

(* the number of ways to extend to length k a pattern that has visited V    *)
(* and ends in a, counted one pattern at a time                             *)
(* the number of ways to extend by n points a pattern that has visited V    *)
(* and ends in a, counted one pattern at a time, b being the next candidate *)
RECURSIVE Extensions(_, _, _, _)
Extensions(V, a, n, b) ==
    IF n = 0 THEN 1
    ELSE IF b = PointCount THEN 0
    ELSE (IF MoveAllowed(a, b, V) THEN Extensions(V \cup {b}, b, n - 1, 0) ELSE 0)
         + Extensions(V, a, n, b + 1)

RECURSIVE PatternsFrom(_, _)
PatternsFrom(a, k) ==
    IF a = PointCount THEN 0
    ELSE Extensions({a}, a, k - 1, 0) + PatternsFrom(a + 1, k)

(* the number of patterns of length k *)
PatternsOfLength(k) == PatternsFrom(0, k)

-----------------------------------------------------------------------------
(* C1: in the sweep validate never fails: when main is about to validate    *)
(* for step k (k - 1 applications of next_step to Step::init()), every      *)
(* index with a nonzero count has exactly k bits set in index div 9, and    *)
(* the process has not aborted in validate.                                 *)
C1_ValidateNeverFails ==
    /\ panic # "validate"
    /\ pc = "validate" =>
          \A i \in 0 .. (Len(current) - 1) :
              at(current, i) # 0 => Cardinality(Visited(i)) = step /\ i < StateIndexEnd

C1_Witness ==
    /\ pc = "display"
    /\ step = 3
    /\ \E i \in 0 .. (Len(current) - 1) : at(current, i) # 0

(* C2: when main is about to validate for step k, every entry of the        *)
(* distribution is the number of patterns of length k that its index        *)
(* encodes, and current_possibilities() is the number of patterns of        *)
(* length k.                                                                *)
C2_EntriesCountPatterns ==
    pc = "validate" =>
        /\ \A s \in 0 .. (Len(current) - 1) : at(current, s) = PatternsOfIndex(s, step)
        /\ current_possibilities(current) = PatternsOfLength(step)

C2_Witness ==
    /\ pc = "validate"
    /\ step = 3
    /\ \E s \in 0 .. (Len(current) - 1) : at(current, s) > 1

(* C3: the total of length 2 is 56, and the assertion of line 187 holds *)
C3_LengthTwoIs56 ==
    /\ panic # "assert56"
    /\ pc = "assert56" /\ step = 2 => current_possibilities(current) = 56

C3_Witness ==
    /\ pc = "next_step"
    /\ step = 3
    /\ output = << <<1, 9>>, <<2, 56>> >>

(* C4: Step::init() is the distribution of length 1: entry p + 9 * 2^p is 1 *)
(* for each point p, every other entry is 0, and the total is 9             *)
C4_InitIsLengthOne ==
    pc = "validate" /\ step = 1 =>
        /\ \A i \in 0 .. (Len(current) - 1) :
              at(current, i) = IF \E p \in Points : i = p + 9 * (2 ^ p) THEN 1 ELSE 0
        /\ \A p \in Points : in_bounds(current, p + 9 * (2 ^ p))
        /\ current_possibilities(current) = 9

C4_Witness ==
    /\ pc = "validate"
    /\ step = 1
    /\ Len(current) > 0

(* the skip pairs as the spec lists them, <<from, to, intermediate>>, in    *)
(* both directions                                                          *)
ListedSkips ==
    LET OneWay == { <<0, 2, 1>>, <<0, 6, 3>>, <<0, 8, 4>>, <<2, 6, 4>>,
                    <<2, 8, 5>>, <<6, 8, 7>>, <<1, 7, 4>>, <<3, 5, 4>> }
    IN  OneWay \cup { <<t[2], t[1], t[3]>> : t \in OneWay }

(* swipe_to makes the move from last point a to candidate b wait for m: it  *)
(* refuses b while m is not swiped, and lets b through once m is            *)
RequiresIntermediate(a, b, m) ==
    /\ a # b
    /\ m \notin {a, b}
    /\ swipe_to(Encode({a}, a), b) = None
    /\ swipe_to(Encode({a, m}, a), b) # None

(* the ordered pairs (last point, candidate) that wait for some point *)
ConstrainedPairs ==
    {t \in Points \X Points : \E m \in Points : RequiresIntermediate(t[1], t[2], m)}

(* C5: on a state index s below 9 * 2^9, swipe_to(s, c) is None exactly     *)
(* when c is visited in s, or (last point of s, c) is a listed skip pair    *)
(* whose intermediate point is not visited in s; every other move, every    *)
(* move from the centre 4 among them, succeeds.                             *)
C5_RefusedExactlyWhenListed ==
    pc = "returned" /\ index < StateIndexEnd =>
        (swiped = None <=>
            \/ next_swiped_point \in Visited(index)
            \/ \E t \in ListedSkips :
                  /\ t[1] = Last(index)
                  /\ t[2] = next_swiped_point
                  /\ t[3] \notin Visited(index))

C5_Witness ==
    /\ pc = "returned"
    /\ Last(index) = 4
    /\ Visited(index) = {4}
    /\ next_swiped_point = 0
    /\ swiped # None

(* C6: when swipe_to(s, c) succeeds on a state index s below 9 * 2^9, the   *)
(* visited mask of the result is the mask of s with bit c added, c not      *)
(* being in it before, and the last point of the result is c.               *)
C6_SuccessAddsTheCandidate ==
    pc = "returned" /\ index < StateIndexEnd /\ swiped # None =>
        /\ next_swiped_point \notin Visited(index)
        /\ swiped[1] \div 9 = (index \div 9) + (2 ^ next_swiped_point)
        /\ Visited(swiped[1]) = Visited(index) \cup {next_swiped_point}
        /\ Cardinality(Visited(swiped[1])) = Cardinality(Visited(index)) + 1
        /\ Last(swiped[1]) = next_swiped_point
        /\ swiped[1] < StateIndexEnd

C6_Witness ==
    /\ pc = "returned"
    /\ Visited(index) = {0, 1}
    /\ Last(index) = 0
    /\ next_swiped_point = 2
    /\ swiped = Some(Encode({0, 1, 2}, 2))

(* C7: swipe_to(s, c) is None whenever bit c is set in the visited mask of  *)
(* s, whatever the last point of s is.                                      *)
C7_VisitedIsRefused ==
    pc = "returned" /\ next_swiped_point \in Visited(index) => swiped = None

C7_Witness ==
    /\ pc = "returned"
    /\ next_swiped_point \in Visited(index)
    /\ Last(index) \notin Visited(index)
    /\ Last(index) # next_swiped_point
    /\ swiped = None

(* C8, as the spec has it: 14 ordered pairs wait for an intermediate point *)
C8_FourteenConstrainedPairs ==
    pc = "returned" => Cardinality(ConstrainedPairs) = 14

(* C8, amended: 16 ordered pairs wait for an intermediate point, and a      *)
(* candidate that is not visited is refused only on one of them.            *)
C8_SixteenConstrainedPairs ==
    /\ Cardinality(ConstrainedPairs) = 16
    /\ pc = "returned" /\ swiped = None /\ next_swiped_point \notin Visited(index) =>
          <<Last(index), next_swiped_point>> \in ConstrainedPairs

C8_Witness ==
    /\ pc = "returned"
    /\ swiped = None
    /\ next_swiped_point \notin Visited(index)
    /\ <<Last(index), next_swiped_point>> = <<3, 5>>

(* C9: the skip rule is symmetric: the move from a to b waits for m exactly *)
(* when the move from b to a waits for m.                                   *)
C9_SkipRuleSymmetric ==
    pc = "returned" =>
        \A m \in Points :
            RequiresIntermediate(last_swiped(index), next_swiped_point, m)
                <=> RequiresIntermediate(next_swiped_point, last_swiped(index), m)

C9_Witness ==
    /\ pc = "returned"
    /\ RequiresIntermediate(last_swiped(index), next_swiped_point, 7)
    /\ RequiresIntermediate(next_swiped_point, last_swiped(index), 7)
    /\ last_swiped(index) = 8

(* C10, as the spec has it: the array has 9 * 2^9 = 4608 entries and        *)
(* Position::from accepts exactly the indices below 9 * 2^9                 *)
C10_ArrayHas4608Entries ==
    pc = "validate" =>
        /\ Len(current) = 4608
        /\ \A i \in 0 .. (Len(current) + ProbeMargin) : from(i) # None <=> i < 9 * (2 ^ 9)

(* C10, amended: the array has 9 * (1 + 2^9) = 4617 entries and             *)
(* Position::from accepts exactly the indices below 9 * (1 + 2^9)           *)
C10_ArrayHas4617Entries ==
    /\ pc = "validate" =>
          /\ Len(current) = 4617
          /\ \A i \in 0 .. (Len(current) + ProbeMargin) :
                from(i) # None <=> i < 9 * (1 + (2 ^ 9))
    /\ pc = "next_step_loop" => Len(next) = 4617

C10_Witness ==
    /\ pc = "next_step_loop"
    /\ step = 2
    /\ Len(current) = Len(next)
    /\ index > 0

-----------------------------------------------------------------------------
(* possibilities is a distribution of length k: it has populated entries,   *)
(* and each of them has k visited points                                    *)
IsLength(possibilities, k) ==
    /\ \E i \in 0 .. (Len(possibilities) - 1) : at(possibilities, i) # 0
    /\ \A i \in 0 .. (Len(possibilities) - 1) :
          at(possibilities, i) # 0 => Cardinality(Visited(i)) = k /\ i < StateIndexEnd

(* the reports of main are in order, one per length: report i is the i-th   *)
(* line and is made of the distribution of length i, and each call of       *)
(* next_step takes the distribution of length step - 1 to length step, for  *)
(* step = 2 .. 9                                                            *)
ReportsInOrder ==
    /\ step <= 9
    /\ Len(output) <= 10
    /\ \A i \in 1 .. Len(output) : i <= 9 => Len(output[i]) = 2 /\ output[i][1] = i
    /\ pc \in {"validate", "display", "next_step", "next_step_loop"} => Len(output) = step - 1
    /\ pc \in {"assert56", "accumulate", "total"} => Len(output) = step
    /\ pc = "next_step" => step >= 2 /\ IsLength(current, step - 1)
    /\ pc \in {"assert56", "accumulate"} =>
          /\ IsLength(current, step)
          /\ output[step] = <<step, current_possibilities(current)>>
    /\ pc = "total" => step = 9
    /\ pc = "done" => step = 9 /\ Len(output) = 10 /\ Len(output[10]) = 1

(* how far main has come: every step of main raises it, and it has a bound  *)
ProgressSpan == all_positions_count + 10

Progress ==
    step * ProgressSpan
    + (CASE pc = "init" -> 0
         [] pc = "next_step" -> 0
         [] pc = "next_step_loop" -> 1 + index
         [] pc = "validate" -> all_positions_count + 2
         [] pc = "display" -> all_positions_count + 3
         [] pc \in {"assert56", "accumulate"} -> all_positions_count + 4
         [] pc = "total" -> all_positions_count + 5
         [] OTHER -> all_positions_count + 6)

(* the guards of the actions of Next, in the order of Next                  *)
MainGuards ==
    << pc = "init",
       pc = "validate",
       pc = "display",
       pc = "assert56",
       pc = "accumulate",
       pc = "total",
       pc = "next_step",
       pc = "next_step_loop" /\ next_populated(current, index) < Len(current),
       pc = "next_step_loop" /\ next_populated(current, index) = Len(current) >>

(* some action of Next has its guard true: main has a step to take          *)
MainHasStep ==
    LET guards == MainGuards
    IN  \E a \in 1 .. Len(guards) : guards[a]

(* C11: the run of main terminates, and it reports one count per length in  *)
(* the order 1, 2, ..., 9, the i-th from the distribution of length i, no   *)
(* step skipped, repeated or driven past length 9.  It terminates: it does  *)
(* not abort, it has a step to take until it is done, and each step raises  *)
(* Progress, which stays below 10 * ProgressSpan.                           *)
C11_TerminatesInOrder ==
    /\ [](ReportsInOrder /\ pc # "aborted" /\ Progress < 10 * ProgressSpan)
    /\ [](pc = "done" \/ MainHasStep)
    /\ [][Progress' > Progress]_vars

C11_Witness ==
    /\ pc = "done"
    /\ step = 9
    /\ Len(output) = 10
    /\ IsLength(current, 9)

(* the sum of the reported counts of the lengths lo .. hi                   *)
RECURSIVE SumOfReports(_, _)
SumOfReports(lo, hi) ==
    IF hi < lo THEN 0 ELSE SumOfReports(lo, hi - 1) + output[hi][2]

(* the lengths whose count main has added to the total so far               *)
Accumulated ==
    IF pc = "accumulate" THEN step - 1
    ELSE IF Len(output) < 9 THEN Len(output) ELSE 9

(* C12: the grand total is the sum of the counts of the lengths 5 to 9,     *)
(* each added once after its report, and nothing of the lengths 1 to 4: the *)
(* running total is 0 until length 5 is reported, then the sum of the       *)
(* reports made from length 5 on, and the printed total is that of 5 to 9.  *)
C12_TotalIsLengths5To9 ==
    pc # "aborted" =>
        /\ sum_step_5_to_9 = SumOfReports(5, Accumulated)
        /\ pc = "done" => output[10] = <<SumOfReports(5, 9)>>

C12_Witness ==
    /\ pc = "total"
    /\ sum_step_5_to_9 = 387488
    /\ sum_step_5_to_9 = SumOfReports(5, 9)
    /\ SumOfReports(1, 4) = 2009

(* what a run of main prints: the counts of the lengths 1 to 9, then the    *)
(* total of the lengths 5 to 9                                              *)
TheOutput ==
    << <<1, 9>>, <<2, 56>>, <<3, 320>>, <<4, 1624>>, <<5, 7152>>,
       <<6, 26016>>, <<7, 72912>>, <<8, 140704>>, <<9, 140704>>,
       <<387488>> >>

(* C13: the sweep is deterministic: every run prints the same counts per    *)
(* length and the same total, and every state of the run before the end has *)
(* exactly one action to take, which assigns one value to every variable.   *)
C13_OneRun ==
    /\ Len(output) <= Len(TheOutput)
    /\ \A i \in 1 .. Len(output) : output[i] = TheOutput[i]
    /\ LET guards == MainGuards
       IN  Cardinality({a \in 1 .. Len(guards) : guards[a]})
               = IF pc \in {"done", "aborted"} THEN 0 ELSE 1
    /\ pc = "done" => output = TheOutput

C13_Witness ==
    /\ pc = "done"
    /\ output = TheOutput
    /\ ~MainHasStep
    /\ panic = ""

(* C14: decoding an index below 9 * 2^9 and encoding it again gives the     *)
(* index: last_swiped + 9 * base is the index, with last_swiped in 0..8 and *)
(* base in 0 .. 2^9 - 1.                                                    *)
C14_DecodeEncode ==
    (pc \in {"swipe_to", "returned"} /\ index < StateIndexEnd) =>
        /\ last_swiped(position[1]) + 9 * base(position[1]) = index
        /\ last_swiped(position[1]) \in 0 .. 8
        /\ base(position[1]) \in 0 .. (2 ^ 9 - 1)

C14_Witness ==
    /\ pc = "swipe_to"
    /\ index = StateIndexEnd - 1
    /\ last_swiped(position[1]) = 8
    /\ base(position[1]) = 2 ^ 9 - 1

(* C15: the state from_point(p) of a point p decodes to the visited mask    *)
(* 1 << p, that is the visited set {p}, and the last point p.               *)
C15_FromPointDecodes ==
    pc \in {"swipe_to", "returned"} =>
        /\ base(position[1]) = 2 ^ index
        /\ last_swiped(position[1]) = index
        /\ Visited(position[1]) = {index}
        /\ Last(position[1]) = index

C15_Witness ==
    /\ pc = "swipe_to"
    /\ index = 8
    /\ position = Some(9 * 256 + 8)

(* C16: in every distribution of the sweep, Step::init() and each result of *)
(* next_step, every populated index has its last point in its visited set.  *)
C16_LastIsVisited ==
    pc = "validate" =>
        \A i \in 0 .. (Len(current) - 1) :
            at(current, i) # 0 => Last(i) \in Visited(i)

C16_Witness ==
    /\ pc = "validate"
    /\ step = 3
    /\ \E i \in 0 .. (Len(current) - 1) :
          /\ at(current, i) # 0
          /\ Last(i) \in Visited(i)
          /\ \E p \in Visited(i) : p < Last(i)
          /\ \E p \in Visited(i) : p > Last(i)

(* the indices that the iterations of next_step over the entries            *)
(* i .. end - 1 write                                                       *)
WrittenFrom(possibilities, i, end) ==
    {swipe_to(j, p)[1] :
        <<j, p>> \in {<<j, p>> \in (i .. (end - 1)) \X Points :
                         at(possibilities, j) # 0 /\ swipe_to(j, p) # None}}

(* C19: every index that next_step writes during the sweep is below         *)
(* 9 * 2^9, inside the array: no access is out of bounds, the assertion of  *)
(* Position::from never fails, and the 9 entries from 9 * 2^9 on stay zero  *)
(* in every distribution.                                                   *)
C19_WritesBelowStateIndexEnd ==
    /\ panic \notin {"index", "from"}
    /\ StateIndexEnd + 9 = all_positions_count
    /\ pc = "next_step_loop" /\ next_populated(current, index) < Len(current) =>
          LET populated == next_populated(current, index)
          IN  \A w \in WrittenFrom(current, populated, block_end(current, populated)) :
                  w < StateIndexEnd /\ in_bounds(next, w)
    /\ \A i \in StateIndexEnd .. (StateIndexEnd + 8) :
          /\ Len(current) > 0 => in_bounds(current, i) /\ at(current, i) = 0
          /\ Len(next) > 0 => in_bounds(next, i) /\ at(next, i) = 0

C19_Witness ==
    /\ pc = "next_step_loop"
    /\ step = 9
    /\ index = StateIndexEnd - 9
    /\ WrittenFrom(current, 0, index) # {}
    /\ \A i \in StateIndexEnd .. (StateIndexEnd + 8) : at(next, i) = 0

(* the number of sequences of k distinct points                             *)
RECURSIVE Arrangements(_)
Arrangements(k) == IF k = 0 THEN 1 ELSE Arrangements(k - 1) * (10 - k)

(* the sum of these numbers for the lengths 5 to 9, 982800                  *)
MostTotal ==
    Arrangements(5) + Arrangements(6) + Arrangements(7)
    + Arrangements(8) + Arrangements(9)

(* n < 2^32, for a natural number n, written with numbers below 2^31        *)
BelowTwoTo32(n) == n \div (2 ^ 16) < 2 ^ 16

(* C20: no value of the sweep overflows 32 bits: every entry of every       *)
(* distribution and every sum over a distribution of length k is at most    *)
(* the number of sequences of k distinct points, at most 9! = 362880, and   *)
(* the running total is at most the sum of these for the lengths 5 to 9,    *)
(* 982800, all far below 2^32.                                              *)
C20_NoOverflow ==
    /\ pc = "validate" =>
          LET most == Arrangements(step)
          IN  /\ \A i \in 0 .. (Len(current) - 1) : at(current, i) <= most
              /\ current_possibilities(current) <= most
    /\ sum_step_5_to_9 <= MostTotal
    /\ BelowTwoTo32(Arrangements(9)) /\ BelowTwoTo32(MostTotal)

C20_Witness ==
    /\ pc = "next_step"
    /\ step = 6
    /\ sum_step_5_to_9 = 7152
    /\ \E i \in 0 .. (Len(current) - 1) : at(current, i) > 1

(* the entries of possibilities that are not zero                           *)
Populated(possibilities) ==
    {i \in 0 .. (Len(possibilities) - 1) : at(possibilities, i) # 0}

(* the number of bits set in the mask i div 9 of index i                    *)
MaskCount(i) == Cardinality({b \in 0 .. 9 : ((i \div 9) \div (2 ^ b)) % 2 = 1})

(* C17: validate(expected) aborts exactly when some populated index has a   *)
(* mask whose number of set bits differs from expected; so it aborts on a   *)
(* populated distribution for every expected length but its own, and never  *)
(* on a distribution that is all zero.                                      *)
C17_ValidateAbortsOnMismatch ==
    pc \in {"validated", "aborted"} =>
        /\ pc = "aborted" <=> panic = "validate"
        /\ panic = "validate" <=> \E i \in Populated(current) : MaskCount(i) # expected
        /\ step <= 9 => Populated(current) # {} /\ (pc = "validated" <=> expected = step)
        /\ Populated(current) = {} => pc = "validated"

C17_Witness ==
    /\ pc = "aborted"
    /\ panic = "validate"
    /\ step = 4
    /\ expected = 5
    /\ \E i \in Populated(current) : MaskCount(i) = 4

(* C18: a full pattern cannot be extended: the k-th distribution of the     *)
(* drive is the distribution of length k, from every populated state of     *)
(* the distribution of length 9 swipe_to is None for each of the 9 points,  *)
(* and next_step of that distribution is all zero.                          *)
C18_FullPatternIsTerminal ==
    /\ step \in 1 .. 9 => IsLength(current, step)
    /\ step = 9 =>
          \A i \in Populated(current) : \A p \in Points : swipe_to(i, p) = None
    /\ step = 10 =>
          /\ Len(current) = all_positions_count
          /\ Populated(current) = {}

C18_Witness ==
    /\ pc = "drive"
    /\ step = 10
    /\ Len(current) = all_positions_count
    /\ Populated(current) = {}

====
